---- MODULE Spec2Model ----
(***************************************************************************)
(* A model of static/js/htmx-modal.js: the modal controller (initModal,    *)
(* showModal, hideModal, clearModalContent, showModalLoading), the         *)
(* SweetAlert2 presenter (showSweetAlert, showConfirmation), the HTMX and  *)
(* custom event listeners, the window.HTMXModal API and the                *)
(* initialization block.                                                   *)
(*                                                                         *)
(* JavaScript values are modelled as strings; null, undefined and a        *)
(* non-string value are the sentinels NULL, UNDEFINED and NUM42, which are *)
(* never drawn as header or argument text.  A JavaScript number that may   *)
(* also be null (the Swal timer) is <<n>> or <<>>.                         *)
(***************************************************************************)
EXTENDS Integers, Sequences, FiniteSets, TLC

VARIABLES
    readyState,      \* document.readyState: "loading" or "interactive"
    domBody,         \* document.body is non-null now
    domModal,        \* an element with id CONFIG.modalId is in the document now
    domContent,      \* an element with id CONFIG.modalContentId is in the document now
    bootstrapDefined,\* typeof bootstrap !== 'undefined' now
    swalDefined,     \* typeof Swal !== 'undefined' now
    pc,              \* "unloaded" | "waiting" | "ready" | "aborted" (script life cycle)
    CONFIG,          \* the CONFIG object (lines 25-32), exposed as HTMXModal.config
    modalElement,    \* const modalElement (line 69) is non-null
    modalInstance,   \* let modalInstance (line 68): 0 is null, k the k-th handle built
    instances,       \* number of bootstrap.Modal objects constructed so far
    listeners,       \* names of the events this script has a listener for
    api,             \* window.HTMXModal and the shorthand globals are assigned
    widget,          \* the modal element as Bootstrap shows it: "hidden" | "shown" | "hiding"
    content,         \* innerHTML of the content region: "empty" | "spinner" | "html"
    timers,          \* pending setTimeout callbacks, in the order they were set
    last             \* what the most recent handler or call did (history)

vars == <<readyState, domBody, domModal, domContent, bootstrapDefined, swalDefined,
          pc, CONFIG, modalElement, modalInstance, instances, listeners, api,
          widget, content, timers, last>>

env == <<readyState, domBody, domModal, domContent, bootstrapDefined, swalDefined>>

-----------------------------------------------------------------------------
(* Bounds of the model *)

\* most setTimeout callbacks pending at once
MaxTimers == 2

-----------------------------------------------------------------------------
(* JavaScript values *)

NULL == "<null>"
UNDEFINED == "<undefined>"
NUM42 == "<number 42>"

\* ToBoolean of a modelled value: null, undefined and '' are falsy
Truthy(v) == v \notin {NULL, UNDEFINED, ""}

\* a || b
Or(a, b) == IF Truthy(a) THEN a ELSE b

IsString(v) == v \notin {NULL, UNDEFINED, NUM42}

\* String.prototype.toUpperCase on the strings the model draws as kinds
ToUpperCase(s) ==
    CASE s = "success" -> "SUCCESS"
      [] s = "error" -> "ERROR"
      [] s = "warning" -> "WARNING"
      [] s = "info" -> "INFO"
      [] s = "question" -> "QUESTION"
      [] s = "bogus" -> "BOGUS"
      [] s = "constructor" -> "CONSTRUCTOR"
      [] OTHER -> s

\* names every plain object inherits from Object.prototype (those the model draws)
ObjectPrototypeKeys == {"constructor", "toString"}

\* the value a plain object yields for a key it does not own
Inherited(key) == IF key \in ObjectPrototypeKeys THEN "<Object.prototype." \o key \o ">"
                  ELSE UNDEFINED

\* obj[key] for an object literal obj (a function from its own keys)
Lookup(obj, key) == IF key \in DOMAIN obj THEN obj[key] ELSE Inherited(key)

-----------------------------------------------------------------------------
(* Configuration, lines 25-32 *)

SuccessAutoClose == 3000

CONFIG0 == [modalId |-> "global-modal",
            modalContentId |-> "modal-content",
            modalBackdrop |-> "static",
            modalKeyboard |-> FALSE,
            successAutoClose |-> SuccessAutoClose,
            enableLogging |-> TRUE]

\* delays of the two setTimeout calls in the htmx:beforeSwap listener
AlertDelay == 200
HideDelay == 100

-----------------------------------------------------------------------------
(* The machine a handler runs on: the mutable program state plus the calls  *)
(* the running handler has made and whether it has thrown.                  *)

Machine == [modalElement |-> modalElement, modalInstance |-> modalInstance,
            instances |-> instances, widget |-> widget, content |-> content,
            timers |-> timers, calls |-> <<>>, threw |-> FALSE, ret |-> UNDEFINED]

Call(m, c) == [m EXCEPT !.calls = Append(@, c)]

Return(m, v) == [m EXCEPT !.ret = v]

Throw(m, what) == [Call(m, [fn |-> "throw", what |-> what]) EXCEPT !.threw = TRUE]

\* number of calls of fn in a call sequence
Count(calls, fn) == Cardinality({i \in DOMAIN calls : calls[i].fn = fn})

\* log(message), lines 42-50
log(m, message) ==
    IF m.threw THEN m
    ELSE IF CONFIG.enableLogging
         THEN Call(m, [fn |-> "console.log", text |-> message])
         ELSE m

\* logError(message), lines 55-61
logError(m, message) ==
    IF m.threw THEN m
    ELSE Call(m, [fn |-> "console.error", text |-> message])

-----------------------------------------------------------------------------
(* The Bootstrap modal widget, as the script uses it.  show() on a modal    *)
(* that is shown or in transition is ignored, hide() on a modal that is not *)
(* shown is ignored; a hide ends with the hidden.bs.modal event.            *)

\* modalInstance.show(), called at line 93
WidgetShow(m) ==
    [Call(m, [fn |-> "modalInstance.show"])
        EXCEPT !.widget = IF m.widget = "hidden" THEN "shown" ELSE m.widget]

\* modalInstance.toggle() in the place of hide(): it opens a hidden modal
WidgetHide_Toggle(m) ==
    [Call(m, [fn |-> "modalInstance.toggle"])
        EXCEPT !.widget = IF m.widget = "shown" THEN "hiding"
                          ELSE IF m.widget = "hidden" THEN "shown" ELSE m.widget]

\* modalInstance.hide(), called at line 105
WidgetHide(m) ==
    [Call(m, [fn |-> "modalInstance.hide"])
        EXCEPT !.widget = IF m.widget = "shown" THEN "hiding" ELSE m.widget]

\* contentElement.innerHTML = value, lines 116 and 127
SetInnerHTML(m, value) ==
    [Call(m, [fn |-> "innerHTML=", value |-> value]) EXCEPT !.content = value]

-----------------------------------------------------------------------------
(* MODAL MANAGEMENT, lines 68-136 *)

\* initModal(), lines 74-86
initModal(m) ==
    IF m.threw THEN m
    ELSE LET m1 == Call(m, [fn |-> "initModal"])
         IN IF m.modalElement /\ bootstrapDefined
            THEN Return(log([Call(m1, [fn |-> "new bootstrap.Modal",
                                       backdrop |-> CONFIG.modalBackdrop,
                                       keyboard |-> CONFIG.modalKeyboard])
                                EXCEPT !.instances = m.instances + 1,
                                       !.modalInstance = m.instances + 1],
                             "Modal instance initialized"), "true")
            ELSE Return(logError(m1, "Failed to initialize modal - element or Bootstrap not found"),
                        "false")

\* showModal() without its guard: modalInstance.show() on null throws
showModal_Unguarded(m) ==
    IF m.threw THEN m
    ELSE LET m1 == Call(m, [fn |-> "showModal"])
         IN IF m.modalInstance # 0
            THEN log(WidgetShow(m1), "Modal shown")
            ELSE Throw(m1, "TypeError: modalInstance is null")

\* showModal(), lines 91-98
showModal(m) ==
    IF m.threw THEN m
    ELSE LET m1 == Call(m, [fn |-> "showModal"])
         IN IF m.modalInstance # 0
            THEN log(WidgetShow(m1), "Modal shown")
            ELSE logError(m1, "Cannot show modal - instance not initialized")

\* hideModal(), lines 103-108
hideModal(m) ==
    IF m.threw THEN m
    ELSE LET m1 == Call(m, [fn |-> "hideModal"])
         IN IF m.modalInstance # 0
            THEN log(WidgetHide(m1), "Modal hidden")
            ELSE m1

\* clearModalContent(), lines 113-119
clearModalContent(m) ==
    IF m.threw THEN m
    ELSE LET m1 == Call(m, [fn |-> "clearModalContent"])
         IN IF domContent
            THEN log(SetInnerHTML(m1, "empty"), "Modal content cleared")
            ELSE m1

\* showModalLoading(), lines 124-136
showModalLoading(m) ==
    IF m.threw THEN m
    ELSE LET m1 == Call(m, [fn |-> "showModalLoading"])
         IN IF domContent
            THEN SetInnerHTML(m1, "spinner")
            ELSE m1

-----------------------------------------------------------------------------
(* SWEETALERT2 MANAGEMENT, lines 150-240 *)

Kinds == {"success", "error", "warning", "info", "question"}

\* iconMap, lines 161-167
iconMap == [k \in Kinds |-> k]

\* defaultTitles, lines 170-176
defaultTitles ==
    [k \in Kinds |->
        CASE k = "success" -> "Success!"
          [] k = "error" -> "Error!"
          [] k = "warning" -> "Warning!"
          [] k = "info" -> "Information"
          [] k = "question" -> "Are you sure?"]

\* buttonColors, lines 179-185
buttonColors ==
    [k \in Kinds |->
        CASE k = "success" -> "#28a745"
          [] k = "error" -> "#dc3545"
          [] k = "warning" -> "#ffc107"
          [] k = "info" -> "#17a2b8"
          [] k = "question" -> "#6c757d"]

\* a value as a template literal renders it
Str(v) == CASE v = NULL -> "null"
            [] v = UNDEFINED -> "undefined"
            [] v = NUM42 -> "42"
            [] OTHER -> v

\* the options without the icon fallback: icon: iconMap[type]
AlertOptions_NoIconFallback(message, type, title) ==
    [icon |-> Lookup(iconMap, type),
     title |-> Or(title, Or(Lookup(defaultTitles, type), "Notification")),
     text |-> message,
     confirmButtonText |-> "OK",
     confirmButtonColor |-> Or(Lookup(buttonColors, type), "#17a2b8"),
     timer |-> IF type = "success" THEN <<CONFIG.successAutoClose>> ELSE <<>>,
     timerProgressBar |-> (type = "success"),
     showCancelButton |-> FALSE]

\* the options with the timer set for every kind: timer: CONFIG.successAutoClose
AlertOptions_AlwaysTimer(message, type, title) ==
    [icon |-> Or(Lookup(iconMap, type), "info"),
     title |-> Or(title, Or(Lookup(defaultTitles, type), "Notification")),
     text |-> message,
     confirmButtonText |-> "OK",
     confirmButtonColor |-> Or(Lookup(buttonColors, type), "#17a2b8"),
     timer |-> <<CONFIG.successAutoClose>>,
     timerProgressBar |-> (type = "success"),
     showCancelButton |-> FALSE]

\* the options object passed to Swal.fire, lines 187-204
AlertOptions(message, type, title) ==
    [icon |-> Or(Lookup(iconMap, type), "info"),
     title |-> Or(title, Or(Lookup(defaultTitles, type), "Notification")),
     text |-> message,
     confirmButtonText |-> "OK",
     confirmButtonColor |-> Or(Lookup(buttonColors, type), "#17a2b8"),
     timer |-> IF type = "success" THEN <<CONFIG.successAutoClose>> ELSE <<>>,
     timerProgressBar |-> (type = "success"),
     showCancelButton |-> FALSE]

\* the console fallback, lines 154-158
AlertFallback(m, message, type, title) ==
    IF IsString(type)
    THEN Return(Call(logError(m, "SweetAlert2 not loaded - falling back to console"),
                     [fn |-> "console.log",
                      text |-> "[" \o ToUpperCase(type) \o "] " \o Str(Or(title, ""))
                                   \o ": " \o Str(message)]),
                UNDEFINED)
    ELSE Throw(logError(m, "SweetAlert2 not loaded - falling back to console"),
               "TypeError: type.toUpperCase is not a function")

\* showSweetAlert(message, type, title), lines 150-207
showSweetAlert(m, message, type, title) ==
    IF m.threw THEN m
    ELSE LET t == Or(type, "success")
             m1 == Call(m, [fn |-> "showSweetAlert", message |-> message,
                            type |-> type, title |-> title])
         IN IF ~swalDefined
            THEN AlertFallback(m1, message, t, title)
            ELSE log(Call(m1, [fn |-> "Swal.fire",
                               opts |-> AlertOptions(message, t, title)]),
                     "SweetAlert shown: " \o Str(t) \o " - " \o Str(message))

\* the options object of the confirmation dialog, lines 224-239
ConfirmOptions(message, title, confirmText, cancelText) ==
    [icon |-> "question",
     title |-> Or(title, "Are you sure?"),
     text |-> message,
     confirmButtonText |-> Or(confirmText, "Yes, proceed"),
     confirmButtonColor |-> "#dc3545",
     timer |-> <<>>,
     timerProgressBar |-> FALSE,
     showCancelButton |-> TRUE]

\* showConfirmation without its guard: Swal.fire with Swal undefined throws
showConfirmation_Unguarded(m, message, title, confirmText, cancelText) ==
    IF m.threw THEN m
    ELSE LET m1 == Call(m, [fn |-> "showConfirmation", message |-> message])
         IN IF ~swalDefined
            THEN Throw(m1, "ReferenceError: Swal is not defined")
            ELSE Return(Call(m1, [fn |-> "Swal.fire",
                                  opts |-> ConfirmOptions(message, title, confirmText,
                                                          cancelText)]),
                        "Promise:pending")

\* showConfirmation(message, title, confirmText, cancelText), lines 218-240
showConfirmation(m, message, title, confirmText, cancelText) ==
    IF m.threw THEN m
    ELSE LET m1 == Call(m, [fn |-> "showConfirmation", message |-> message])
         IN IF ~swalDefined
            THEN Return(logError(m1, "SweetAlert2 not loaded"), "Promise:rejected")
            ELSE Return(Call(m1, [fn |-> "Swal.fire",
                                  opts |-> ConfirmOptions(message, title, confirmText,
                                                          cancelText)]),
                        "Promise:pending")

-----------------------------------------------------------------------------
(* Timers: setTimeout(callback, delay).  A timer holds the time left until  *)
(* it is due; due timers run in the order of their due times, and timers    *)
(* due at the same time in the order they were set.  A timer remembers      *)
(* whether the event that set it also set the other kind of timer (paired). *)

\* setTimeout(function() { showSweetAlert(message, type || 'success', title) }, 200), lines 281-283
SetAlertTimer(m, message, type, title, paired) ==
    [Call(m, [fn |-> "setTimeout", callback |-> "showSweetAlert", delay |-> AlertDelay])
        EXCEPT !.timers = Append(@, [fn |-> "showSweetAlert", remaining |-> AlertDelay,
                                     message |-> message, type |-> type, title |-> title,
                                     cause |-> message, paired |-> paired])]

\* the hide timer with a delay longer than the alert's
SetHideTimer_Late(m, cause, paired) ==
    [Call(m, [fn |-> "setTimeout", callback |-> "hideModal",
              delay |-> AlertDelay + HideDelay])
        EXCEPT !.timers = Append(@, [fn |-> "hideModal",
                                     remaining |-> AlertDelay + HideDelay,
                                     message |-> NULL, type |-> NULL, title |-> NULL,
                                     cause |-> cause, paired |-> paired])]

\* setTimeout(hideModal, 100), line 289; cause is the header value that set it
SetHideTimer(m, cause, paired) ==
    [Call(m, [fn |-> "setTimeout", callback |-> "hideModal", delay |-> HideDelay])
        EXCEPT !.timers = Append(@, [fn |-> "hideModal", remaining |-> HideDelay,
                                     message |-> NULL, type |-> NULL, title |-> NULL,
                                     cause |-> cause, paired |-> paired])]

\* the alert callback without the default kind: it passes the header as it is
RunTimer_NoDefault(m, t) ==
    IF t.fn = "hideModal"
    THEN hideModal(m)
    ELSE showSweetAlert(m, t.message, t.type, t.title)

\* the body of a timer's callback
RunTimer(m, t) ==
    IF t.fn = "hideModal"
    THEN hideModal(m)
    ELSE showSweetAlert(m, t.message, Or(t.type, "success"), t.title)

Min(S) == CHOOSE x \in S : \A y \in S : x <= y

RemoveAt(seq, i) == [j \in 1..(Len(seq) - 1) |-> IF j < i THEN seq[j] ELSE seq[j + 1]]

-----------------------------------------------------------------------------
(* History: what the most recent handler did.                               *)

Snapshot == [modalInstance |-> modalInstance, instances |-> instances,
             widget |-> widget, content |-> content, timers |-> Len(timers)]

NoArg == [none |-> TRUE]

Idle == [event |-> "none", arg |-> NoArg,
         pre |-> [modalInstance |-> 0, instances |-> 0, widget |-> "hidden",
                  content |-> "empty", timers |-> 0],
         calls |-> <<>>, threw |-> FALSE, ret |-> UNDEFINED]

\* the program state after a handler that ran on machine m
Commit(m, event, arg) ==
    /\ modalInstance' = m.modalInstance
    /\ instances' = m.instances
    /\ widget' = m.widget
    /\ content' = m.content
    /\ timers' = m.timers
    /\ last' = [event |-> event, arg |-> arg, pre |-> Snapshot, calls |-> m.calls,
                threw |-> m.threw, ret |-> m.ret]

\* an environment step leaves the program alone
EnvStep ==
    /\ last' = Idle
    /\ UNCHANGED <<pc, CONFIG, modalElement, modalInstance, instances, listeners, api,
                   timers>>

-----------------------------------------------------------------------------
(* The page around the script *)

HtmxEvents == {"htmx:afterSwap", "htmx:beforeRequest", "htmx:beforeSwap",
               "htmx:responseError", "htmx:sendError", "htmx:timeout"}

Init ==
    /\ readyState \in {"loading", "interactive"}
    /\ domBody \in BOOLEAN
    /\ domModal \in BOOLEAN
    /\ domContent = domModal
    /\ (readyState # "loading") => domBody
    /\ domModal => domBody
    /\ bootstrapDefined \in BOOLEAN
    /\ swalDefined \in BOOLEAN
    /\ pc = "unloaded"
    /\ CONFIG = CONFIG0
    /\ modalElement = FALSE
    /\ modalInstance = 0
    /\ instances = 0
    /\ listeners = {}
    /\ api = FALSE
    /\ widget = "hidden"
    /\ content = "empty"
    /\ timers = <<>>
    /\ last = Idle

\* the parser reaches more of the document while it is loading: the body,
\* and in it the modal element with its content region
ParseDocument ==
    /\ readyState = "loading"
    /\ \E b, e \in BOOLEAN :
          /\ domBody => b
          /\ domModal => e
          /\ e => b
          /\ <<b, e>> # <<domBody, domModal>>
          /\ domBody' = b
          /\ domModal' = e
          /\ domContent' = e
    /\ UNCHANGED <<readyState, bootstrapDefined, swalDefined, widget, content>>
    /\ EnvStep

\* the block initializing at once as well as on DOMContentLoaded
InitBlock_AlsoAtOnce(m) ==
    IF readyState = "loading"
    THEN log(initModal(Call(m, [fn |-> "addEventListener", type |-> "DOMContentLoaded"])),
             "HTMX Modal Management initialized immediately")
    ELSE log(initModal(m), "HTMX Modal Management initialized immediately")

\* the initialization block, lines 426-434, run on machine m
InitBlock(m) ==
    IF readyState = "loading"
    THEN Call(m, [fn |-> "addEventListener", type |-> "DOMContentLoaded"])
    ELSE log(initModal(m), "HTMX Modal Management initialized immediately")

\* the DOMContentLoaded listener, lines 427-430
OnDOMContentLoaded(m) ==
    log(initModal(m), "HTMX Modal Management initialized on DOMContentLoaded")

\* the listeners without the one on the modal element
ScriptListeners_NoHidden ==
    HtmxEvents \cup {"showAlert", "closeModal"}
        \cup (IF readyState = "loading" THEN {"DOMContentLoaded"} ELSE {})

\* the listeners a script that runs to its end has registered: lines 251-358,
\* hidden.bs.modal if (modalElement) at 368-372, DOMContentLoaded at 427
ScriptListeners ==
    HtmxEvents \cup {"showAlert", "closeModal"}
        \cup (IF domModal THEN {"hidden.bs.modal"} ELSE {})
        \cup (IF readyState = "loading" THEN {"DOMContentLoaded"} ELSE {})

\* the script is evaluated: lines 18-436 top to bottom.  document.body is
\* null while the body has not been parsed, and line 346 then throws.
EvalScript ==
    /\ pc = "unloaded"
    /\ modalElement' = domModal
    /\ CONFIG' = CONFIG0
    /\ IF ~domBody
       THEN /\ listeners' = HtmxEvents
            /\ api' = FALSE
            /\ pc' = "aborted"
            /\ Commit(Throw(Machine, "TypeError: document.body is null"), "script", NoArg)
       ELSE /\ listeners' = ScriptListeners
            /\ api' = TRUE
            /\ pc' = IF readyState = "loading" THEN "waiting" ELSE "ready"
            /\ Commit(InitBlock([Machine EXCEPT !.modalElement = domModal]), "script", NoArg)
    /\ UNCHANGED env

\* the document has been parsed: DOMContentLoaded is dispatched
DOMContentLoaded ==
    /\ readyState = "loading"
    /\ domBody
    /\ readyState' = "interactive"
    /\ IF "DOMContentLoaded" \in listeners
       THEN /\ pc' = "ready"
            /\ Commit(OnDOMContentLoaded(Machine), "DOMContentLoaded", NoArg)
       ELSE /\ pc' = pc
            /\ Commit(Machine, "DOMContentLoaded", NoArg)
    /\ UNCHANGED <<domBody, domModal, domContent, bootstrapDefined, swalDefined,
                   CONFIG, modalElement, listeners, api>>

-----------------------------------------------------------------------------
(* HTMX EVENT HANDLERS, lines 251-336 *)

ModalContentId == "modal-content"

\* the listener without its test of the target: any swap shows the modal
OnAfterSwap_AnyTarget(m, targetId) == showModal(m)

\* the htmx:afterSwap listener, lines 251-255; targetId is event.detail.target.id
OnAfterSwap(m, targetId) ==
    IF targetId = CONFIG.modalContentId THEN showModal(m) ELSE m

\* the listener opening the modal with the spinner as soon as a request starts
OnBeforeRequest_ShowsModal(m, targetId) ==
    IF targetId = CONFIG.modalContentId THEN showModal(showModalLoading(m)) ELSE m

\* the htmx:beforeRequest listener, lines 261-265
OnBeforeRequest(m, targetId) ==
    IF targetId = CONFIG.modalContentId THEN showModalLoading(m) ELSE m

\* the alert half of the htmx:beforeSwap listener, lines 275-284
BeforeSwapAlert(m, h) ==
    IF Truthy(h.message) THEN SetAlertTimer(m, h.message, h.type, h.title, h.close = "true") ELSE m

\* the close half testing the header for truthiness: if (closeModal)
BeforeSwapClose_Truthy(m, h) ==
    IF Truthy(h.close) THEN SetHideTimer(m, h.close, Truthy(h.message)) ELSE m

\* the close half of the htmx:beforeSwap listener, lines 287-290
BeforeSwapClose(m, h) ==
    IF h.close = "true" THEN SetHideTimer(m, h.close, Truthy(h.message)) ELSE m

\* the listener clearing the timers that are pending before it sets its own
OnBeforeSwap_Debounced(m, h) ==
    BeforeSwapClose(BeforeSwapAlert([m EXCEPT !.timers = <<>>], h), h)

\* the htmx:beforeSwap listener, lines 271-291; h holds what
\* xhr.getResponseHeader returns for the four headers (NULL when missing)
OnBeforeSwap(m, h) == BeforeSwapClose(BeforeSwapAlert(m, h), h)

\* the listener without its hideModal() call
OnResponseError_NoHide(m) ==
    showSweetAlert(logError(m, "HTMX response error"),
                   "An error occurred while processing your request. Please try again.",
                   "error", "Request Failed")

\* the htmx:responseError listener, lines 297-307
OnResponseError(m) ==
    hideModal(
        showSweetAlert(logError(m, "HTMX response error"),
                       "An error occurred while processing your request. Please try again.",
                       "error", "Request Failed"))

\* the listener closing the modal as the other two failure listeners do
OnSendError_Hides(m) ==
    hideModal(
        showSweetAlert(logError(m, "HTMX network error"),
                       "Unable to connect to the server. Please check your internet connection and try again.",
                       "error", "Connection Error"))

\* the htmx:sendError listener, lines 313-321
OnSendError(m) ==
    showSweetAlert(logError(m, "HTMX network error"),
                   "Unable to connect to the server. Please check your internet connection and try again.",
                   "error", "Connection Error")

\* the htmx:timeout listener, lines 326-336
OnTimeout(m) ==
    hideModal(
        showSweetAlert(logError(m, "HTMX timeout"),
                       "The request took too long to complete. Please try again.",
                       "warning", "Request Timeout"))

-----------------------------------------------------------------------------
(* CUSTOM EVENT HANDLERS, lines 346-358, and the Bootstrap one, 368-372 *)

\* the showAlert listener, lines 346-351; d.present is whether event.detail is an object
OnShowAlert(m, d) ==
    IF ~d.present
    THEN Throw(m, "TypeError: event.detail is null")
    ELSE showSweetAlert(m, Or(d.message, "Action completed"), Or(d.type, "success"),
                        Or(d.title, NULL))

\* the closeModal listener, lines 356-358
OnCloseModal(m) == hideModal(m)

\* the listener only logging, not clearing
OnHiddenBsModal_LogOnly(m) == log(m, "Modal hidden")

\* the hidden.bs.modal listener, lines 369-371
OnHiddenBsModal(m) == clearModalContent(m)

-----------------------------------------------------------------------------
(* The events, as the page delivers them.  A listener runs only once the    *)
(* script has registered it.                                                *)

Handler == <<CONFIG, modalElement, listeners, api, pc>>

AfterSwap(targetId) ==
    /\ "htmx:afterSwap" \in listeners
    /\ (targetId = ModalContentId) => domContent
    /\ Commit(OnAfterSwap(Machine, targetId), "htmx:afterSwap", [target |-> targetId])
    /\ UNCHANGED <<env, Handler>>

BeforeRequest(targetId) ==
    /\ "htmx:beforeRequest" \in listeners
    /\ (targetId = ModalContentId) => domContent
    /\ Commit(OnBeforeRequest(Machine, targetId), "htmx:beforeRequest", [target |-> targetId])
    /\ UNCHANGED <<env, Handler>>

BeforeSwap(h) ==
    /\ "htmx:beforeSwap" \in listeners
    /\ Len(OnBeforeSwap(Machine, h).timers) <= MaxTimers
    /\ Commit(OnBeforeSwap(Machine, h), "htmx:beforeSwap", h)
    /\ UNCHANGED <<env, Handler>>

ResponseError ==
    /\ "htmx:responseError" \in listeners
    /\ Commit(OnResponseError(Machine), "htmx:responseError", NoArg)
    /\ UNCHANGED <<env, Handler>>

SendError ==
    /\ "htmx:sendError" \in listeners
    /\ Commit(OnSendError(Machine), "htmx:sendError", NoArg)
    /\ UNCHANGED <<env, Handler>>

Timeout ==
    /\ "htmx:timeout" \in listeners
    /\ Commit(OnTimeout(Machine), "htmx:timeout", NoArg)
    /\ UNCHANGED <<env, Handler>>

ShowAlertEvent(d) ==
    /\ "showAlert" \in listeners
    /\ Commit(OnShowAlert(Machine, d), "showAlert", d)
    /\ UNCHANGED <<env, Handler>>

CloseModalEvent ==
    /\ "closeModal" \in listeners
    /\ Commit(OnCloseModal(Machine), "closeModal", NoArg)
    /\ UNCHANGED <<env, Handler>>

\* Bootstrap ends a hide transition: the modal is hidden and hidden.bs.modal
\* is dispatched on the modal element
HiddenBsModal ==
    /\ widget = "hiding"
    /\ LET m == [Machine EXCEPT !.widget = "hidden"]
       IN IF "hidden.bs.modal" \in listeners
          THEN Commit(OnHiddenBsModal(m), "hidden.bs.modal", NoArg)
          ELSE Commit(m, "hidden.bs.modal", NoArg)
    /\ UNCHANGED <<env, Handler>>

\* htmx swaps a response into the content region
SwapContent ==
    /\ domContent
    /\ content # "html"
    /\ content' = "html"
    /\ widget' = widget
    /\ UNCHANGED env
    /\ EnvStep

\* the first due timer runs
TimerFire ==
    /\ \E i \in DOMAIN timers :
          /\ timers[i].remaining = 0
          /\ \A j \in 1..(i - 1) : timers[j].remaining # 0
          /\ Commit(RunTimer([Machine EXCEPT !.timers = RemoveAt(timers, i)], timers[i]),
                    "timer", timers[i])
    /\ UNCHANGED <<env, Handler>>

\* time passes until the next timer is due
AdvanceTime ==
    /\ timers # <<>>
    /\ \A i \in DOMAIN timers : timers[i].remaining > 0
    /\ LET d == Min({timers[i].remaining : i \in DOMAIN timers})
       IN timers' = [i \in DOMAIN timers |-> [timers[i] EXCEPT !.remaining = @ - d]]
    /\ last' = Idle
    /\ UNCHANGED <<env, Handler, modalInstance, instances, widget, content>>

-----------------------------------------------------------------------------
(* GLOBAL API, lines 382-416: calls page code makes once the globals exist  *)

\* HTMXModal.show()
ApiShow ==
    /\ api
    /\ Commit(showModal(Machine), "HTMXModal.show", NoArg)
    /\ UNCHANGED <<env, Handler>>

\* HTMXModal.hide()
ApiHide ==
    /\ api
    /\ Commit(hideModal(Machine), "HTMXModal.hide", NoArg)
    /\ UNCHANGED <<env, Handler>>

\* HTMXModal.clear()
ApiClear ==
    /\ api
    /\ Commit(clearModalContent(Machine), "HTMXModal.clear", NoArg)
    /\ UNCHANGED <<env, Handler>>

\* HTMXModal.showAlert(message, type, title), also window.showAlert
ApiShowAlert(message, type, title) ==
    /\ api
    /\ Commit(showSweetAlert(Machine, message, type, title), "HTMXModal.showAlert",
              [message |-> message, type |-> type, title |-> title])
    /\ UNCHANGED <<env, Handler>>

\* HTMXModal.showSuccess / showError / showWarning / showInfo (message, title), lines 390-401
ApiShowKind(kind, message, title) ==
    /\ api
    /\ Commit(showSweetAlert(Machine, message, kind, title), "HTMXModal.show" \o kind,
              [message |-> message, type |-> kind, title |-> title])
    /\ UNCHANGED <<env, Handler>>

\* HTMXModal.confirm(message, title, confirmText, cancelText), also window.confirmAction
ApiConfirm(message, title, confirmText, cancelText) ==
    /\ api
    /\ Commit(showConfirmation(Machine, message, title, confirmText, cancelText),
              "HTMXModal.confirm",
              [message |-> message, title |-> title, confirmText |-> confirmText,
               cancelText |-> cancelText])
    /\ UNCHANGED <<env, Handler>>

\* page code writes HTMXModal.config.successAutoClose, the object of line 407
SetSuccessAutoClose(ms) ==
    /\ api
    /\ CONFIG.successAutoClose # ms
    /\ CONFIG' = [CONFIG EXCEPT !.successAutoClose = ms]
    /\ last' = Idle
    /\ UNCHANGED <<env, pc, modalElement, modalInstance, instances, listeners, api,
                   widget, content, timers>>

-----------------------------------------------------------------------------
(* Inputs *)

TargetIds == {ModalContentId, "other-panel"}

Headers(message, type, title, close) ==
    [message |-> message, type |-> type, title |-> title, close |-> close]

\* response header bags of the life-cycle specification
HeaderBags ==
    {Headers(NULL, NULL, NULL, c) : c \in {NULL, "true", "false"}}
    \cup {Headers("Saved", NULL, NULL, c) : c \in {NULL, "true"}}

\* response header bags of the header specification
AllHeaderBags ==
    {Headers(msg, NULL, NULL, c) :
        msg \in {NULL, "", "Saved"}, c \in {NULL, "", "true", "false", "1", "TRUE"}}
    \cup {Headers("Saved", t, ti, NULL) : t \in {NULL, "", "error"}, ti \in {NULL, "Done"}}
    \cup {Headers("", "error", "Done", NULL), Headers(NULL, "error", "Done", "true"),
          Headers("Saved", "error", "Done", "true")}

Detail(present, message, type, title) ==
    [present |-> present, message |-> message, type |-> type, title |-> title]

Details ==
    {Detail(FALSE, UNDEFINED, UNDEFINED, UNDEFINED)}
    \cup {Detail(TRUE, UNDEFINED, UNDEFINED, UNDEFINED),
          Detail(TRUE, "Saved", "error", "Done")}

\* kinds given to the presenter: the five it knows, unknown ones, names a
\* plain object inherits, and absent or non-string values
KindInputs == Kinds \cup {"bogus", "constructor", "", NULL, UNDEFINED, NUM42}

TitleInputs == {UNDEFINED, NULL, "", "Custom"}

AutoCloseInputs == {SuccessAutoClose, 1500}

-----------------------------------------------------------------------------
(* The life-cycle specification: every listener and the modal API *)

Next ==
    \/ ParseDocument
    \/ EvalScript
    \/ DOMContentLoaded
    \/ \E t \in TargetIds : AfterSwap(t)
    \/ \E t \in TargetIds : BeforeRequest(t)
    \/ \E h \in HeaderBags : BeforeSwap(h)
    \/ ResponseError
    \/ SendError
    \/ Timeout
    \/ \E d \in Details : ShowAlertEvent(d)
    \/ CloseModalEvent
    \/ HiddenBsModal
    \/ SwapContent
    \/ TimerFire
    \/ AdvanceTime
    \/ ApiShow
    \/ ApiHide
    \/ ApiClear

Spec == Init /\ [][Next]_vars

(* The header specification: the pre-swap listener on every header bag *)

\* the script is evaluated on a page that has been parsed
InitLoaded == Init /\ readyState = "interactive"

NextHeaders ==
    \/ EvalScript
    \/ AfterSwap(ModalContentId)
    \/ \E h \in AllHeaderBags : BeforeSwap(h)
    \/ TimerFire
    \/ AdvanceTime

SpecHeaders == InitLoaded /\ [][NextHeaders]_vars

(* The presenter specification: notify and confirm on every input *)

NextNotify ==
    \/ ParseDocument
    \/ EvalScript
    \/ DOMContentLoaded
    \/ \E ms \in AutoCloseInputs : SetSuccessAutoClose(ms)
    \/ \E k \in KindInputs, ti \in TitleInputs : ApiShowAlert("Saved", k, ti)
    \/ \E k \in {"success", "error", "warning", "info"}, ti \in TitleInputs :
          ApiShowKind(k, "Saved", ti)
    \/ \E ti \in TitleInputs : ApiConfirm("Delete?", ti, UNDEFINED, UNDEFINED)

SpecNotify == Init /\ [][NextNotify]_vars

(* The timer specification: the timers of the pre-swap listener among the   *)
(* other triggers, on an event loop that runs every due timer and lets time *)
(* pass while timers are pending                                            *)

NextTimers ==
    \/ EvalScript
    \/ BeforeRequest(ModalContentId)
    \/ AfterSwap(ModalContentId)
    \/ \E h \in HeaderBags : BeforeSwap(h)
    \/ ResponseError
    \/ CloseModalEvent
    \/ HiddenBsModal
    \/ TimerFire
    \/ AdvanceTime

SpecTimers ==
    /\ InitLoaded
    /\ [][NextTimers]_vars
    /\ WF_vars(TimerFire)
    /\ WF_vars(AdvanceTime)

-----------------------------------------------------------------------------
(* Properties *)

\* the Modal Controller state of the specification's state machine
ModalState(mi, w, c) ==
    IF mi = 0 THEN "Uninitialized"
    ELSE IF w # "hidden" THEN "Visible"
    ELSE IF c = "spinner" THEN "Loading"
    ELSE "Hidden"

\* the calls of fn in a call sequence
CallsOf(calls, fn) == {i \in DOMAIN calls : calls[i].fn = fn}

\* the setTimeout calls with a given callback
TimeoutsFor(calls, cb) ==
    {i \in DOMAIN calls : calls[i].fn = "setTimeout" /\ calls[i].callback = cb}

\* no write to the DOM and no call on the modal widget
NoDomOrWidgetCall(calls) ==
    /\ CallsOf(calls, "innerHTML=") = {}
    /\ CallsOf(calls, "modalInstance.show") = {}
    /\ CallsOf(calls, "modalInstance.hide") = {}
    /\ CallsOf(calls, "new bootstrap.Modal") = {}

\* the modal looks as it did before the handler
ModalUnchanged ==
    /\ widget = last.pre.widget
    /\ content = last.pre.content
    /\ modalInstance = last.pre.modalInstance

\* C1: in every modal state, the htmx:responseError listener makes exactly one
\* notify call, of kind "error" and title "Request Failed", and exactly one
\* hide call, and does not throw.
C1_ResponseErrorNotifiesAndHidesOnce ==
    (last.event = "htmx:responseError") =>
        /\ Cardinality(CallsOf(last.calls, "showSweetAlert")) = 1
        /\ \A i \in CallsOf(last.calls, "showSweetAlert") :
              last.calls[i].type = "error" /\ last.calls[i].title = "Request Failed"
        /\ swalDefined =>
              /\ Cardinality(CallsOf(last.calls, "Swal.fire")) = 1
              /\ \A i \in CallsOf(last.calls, "Swal.fire") :
                    /\ last.calls[i].opts.icon = "error"
                    /\ last.calls[i].opts.title = "Request Failed"
        /\ Cardinality(CallsOf(last.calls, "hideModal")) = 1
        /\ ~last.threw

\* C1 witness: the listener ran on a visible modal and its hide call has acted
C1_Witness ==
    /\ last.event = "htmx:responseError"
    /\ ModalState(last.pre.modalInstance, last.pre.widget, last.pre.content) = "Visible"
    /\ last.pre.widget = "shown"
    /\ widget = "hiding"
    /\ Cardinality(CallsOf(last.calls, "Swal.fire")) = 1

\* C2: the htmx:sendError listener makes exactly one notify call, of kind
\* "error" and title "Connection Error", and no hide call; the modal's
\* visibility and content region are as they were before it.
C2_SendErrorNotifiesOnceNoHide ==
    (last.event = "htmx:sendError") =>
        /\ Cardinality(CallsOf(last.calls, "showSweetAlert")) = 1
        /\ \A i \in CallsOf(last.calls, "showSweetAlert") :
              last.calls[i].type = "error" /\ last.calls[i].title = "Connection Error"
        /\ CallsOf(last.calls, "hideModal") = {}
        /\ NoDomOrWidgetCall(last.calls)
        /\ ModalUnchanged
        /\ Len(timers) = last.pre.timers

\* C2 witness: the listener ran while the modal was visible, and it still is
C2_Witness ==
    /\ last.event = "htmx:sendError"
    /\ last.pre.widget = "shown"
    /\ widget = "shown"
    /\ content = "html"
    /\ Cardinality(CallsOf(last.calls, "Swal.fire")) = 1

\* C3: the htmx:beforeSwap listener sets a hide timer exactly when the
\* HX-Close-Modal header is the string "true", and hides nothing itself;
\* every pending or running hide timer was set for a header "true".
C3_HideIffCloseHeaderIsTrue ==
    /\ (last.event = "htmx:beforeSwap") =>
          /\ Cardinality(TimeoutsFor(last.calls, "hideModal"))
                = (IF last.arg.close = "true" THEN 1 ELSE 0)
          /\ CallsOf(last.calls, "hideModal") = {}
          /\ NoDomOrWidgetCall(last.calls)
          /\ ModalUnchanged
          /\ Cardinality({i \in DOMAIN timers : i > last.pre.timers
                                               /\ timers[i].fn = "hideModal"})
                = (IF last.arg.close = "true" THEN 1 ELSE 0)
    /\ \A i \in DOMAIN timers : timers[i].fn = "hideModal" => timers[i].cause = "true"
    /\ (last.event = "timer" /\ last.arg.fn = "hideModal") =>
          /\ last.arg.cause = "true"
          /\ Cardinality(CallsOf(last.calls, "hideModal")) = 1

\* C3 witness: a hide timer set for a header "true" has run and closed the modal
C3_Witness ==
    /\ last.event = "timer"
    /\ last.arg.fn = "hideModal"
    /\ last.pre.widget = "shown"
    /\ widget = "hiding"

\* the kind the pre-swap listener passes for an HX-Alert-Type header
KindFor(typeHeader) == IF typeHeader \in {NULL, ""} THEN "success" ELSE typeHeader

\* C4: for a non-empty HX-Alert-Message the htmx:beforeSwap listener sets one
\* alert timer holding the three headers; when it runs, notify is called once
\* with that message, the HX-Alert-Type header (or "success" when there is
\* none) and the HX-Alert-Title header; with neither type nor title the alert
\* shown has the success icon and the title "Success!".
C4_AlertHeaderNotifies ==
    /\ (last.event = "htmx:beforeSwap" /\ last.arg.message \notin {NULL, ""}) =>
          /\ Cardinality(TimeoutsFor(last.calls, "showSweetAlert")) = 1
          /\ Len(timers) > last.pre.timers
          /\ timers[last.pre.timers + 1].fn = "showSweetAlert"
          /\ timers[last.pre.timers + 1].message = last.arg.message
          /\ timers[last.pre.timers + 1].type = last.arg.type
          /\ timers[last.pre.timers + 1].title = last.arg.title
    /\ (last.event = "timer" /\ last.arg.fn = "showSweetAlert") =>
          /\ Cardinality(CallsOf(last.calls, "showSweetAlert")) = 1
          /\ \A i \in CallsOf(last.calls, "showSweetAlert") :
                /\ last.calls[i].message = last.arg.message
                /\ last.calls[i].type = KindFor(last.arg.type)
                /\ last.calls[i].title = last.arg.title
          /\ (swalDefined /\ last.arg.type = NULL /\ last.arg.title = NULL) =>
                /\ Cardinality(CallsOf(last.calls, "Swal.fire")) = 1
                /\ \A i \in CallsOf(last.calls, "Swal.fire") :
                      /\ last.calls[i].opts.icon = "success"
                      /\ last.calls[i].opts.title = "Success!"
                      /\ last.calls[i].opts.text = last.arg.message

\* C4 witness: the alert of a response with only HX-Alert-Message has been shown
C4_Witness ==
    /\ last.event = "timer"
    /\ last.arg.fn = "showSweetAlert"
    /\ last.arg.message = "Saved"
    /\ last.arg.type = NULL
    /\ last.arg.title = NULL
    /\ \E i \in CallsOf(last.calls, "Swal.fire") : last.calls[i].opts.title = "Success!"

\* show() or hide() of the API was called while modalInstance was null
UninitializedCall(name) ==
    /\ last.event = name
    /\ last.pre.modalInstance = 0

\* C5 as claimed: while the handle is absent, show() and hide() each log an
\* error, write nothing to the DOM, call nothing on the widget and do not throw.
C5_Original ==
    (UninitializedCall("HTMXModal.show") \/ UninitializedCall("HTMXModal.hide")) =>
        /\ CallsOf(last.calls, "console.error") # {}
        /\ NoDomOrWidgetCall(last.calls)
        /\ ModalUnchanged
        /\ ~last.threw

\* C5 amended: while the handle is absent, show() logs one error and hide()
\* logs nothing; each writes nothing to the DOM, calls nothing on the widget
\* and does not throw.
C5_ShowLogsHideSilent ==
    /\ UninitializedCall("HTMXModal.show") =>
          /\ Cardinality(CallsOf(last.calls, "console.error")) = 1
          /\ NoDomOrWidgetCall(last.calls)
          /\ ModalUnchanged
          /\ ~last.threw
    /\ UninitializedCall("HTMXModal.hide") =>
          /\ CallsOf(last.calls, "console.error") = {}
          /\ CallsOf(last.calls, "console.log") = {}
          /\ NoDomOrWidgetCall(last.calls)
          /\ ModalUnchanged
          /\ ~last.threw

\* C5 witness: show() was called after initialization had failed
C5_Witness ==
    /\ UninitializedCall("HTMXModal.show")
    /\ pc = "ready"
    /\ modalInstance = 0
    /\ Cardinality(CallsOf(last.calls, "console.error")) = 1

\* C6: when hidden.bs.modal fires on an initialized modal, clearModalContent
\* runs once and the content region is empty afterwards.
C6_HiddenClearsContent ==
    (last.event = "hidden.bs.modal" /\ last.pre.modalInstance # 0) =>
        /\ Cardinality(CallsOf(last.calls, "clearModalContent")) = 1
        /\ content = "empty"
        /\ widget = "hidden"

\* C6 witness: a hide transition ended on a modal holding swapped-in content
C6_Witness ==
    /\ last.event = "hidden.bs.modal"
    /\ last.pre.modalInstance # 0
    /\ last.pre.content = "html"
    /\ last.pre.widget = "hiding"
    /\ content = "empty"


\* the last handler was a notify call of the API, with the arguments last.arg
NotifyCalled ==
    last.event \in {"HTMXModal.showAlert", "HTMXModal.showsuccess", "HTMXModal.showerror",
                    "HTMXModal.showwarning", "HTMXModal.showinfo"}

\* the kind notify works with: "success" when the argument is absent
KindOf(type) == IF type \in {NULL, UNDEFINED, ""} THEN "success" ELSE type

\* the icon, default title and accent color of the specification, per kind
SpecTriple(kind) ==
    CASE kind = "success" -> <<"success", "Success!", "#28a745">>
      [] kind = "error" -> <<"error", "Error!", "#dc3545">>
      [] kind = "warning" -> <<"warning", "Warning!", "#ffc107">>
      [] kind = "info" -> <<"info", "Information", "#17a2b8">>
      [] kind = "question" -> <<"question", "Are you sure?", "#6c757d">>

\* the icon, title and color of an alert's options
TripleOf(opts) == <<opts.icon, opts.title, opts.confirmButtonColor>>

\* notify was called without a title and showed an alert
UntitledAlerts ==
    IF NotifyCalled /\ last.arg.title \in {NULL, UNDEFINED}
    THEN CallsOf(last.calls, "Swal.fire")
    ELSE {}

\* C7 as claimed: without a title, a kind among the five selects its own
\* icon, default title and color, and every other kind the whole info triple.
C7_Original ==
    \A i \in UntitledAlerts :
        TripleOf(last.calls[i].opts)
            = (IF KindOf(last.arg.type) \in {"success", "error", "warning", "info", "question"}
               THEN SpecTriple(KindOf(last.arg.type))
               ELSE SpecTriple("info"))

\* C7 amended: without a title, a kind among the five selects its own icon,
\* default title and color; any other kind selects the info icon, the info
\* color #17a2b8 and the title "Notification", except a kind naming a member
\* every object inherits ("constructor", "toString"), which selects that
\* inherited member for all three.
C7_KindSelectsTriple ==
    \A i \in UntitledAlerts :
        TripleOf(last.calls[i].opts)
            = (IF KindOf(last.arg.type) \in {"success", "error", "warning", "info", "question"}
               THEN SpecTriple(KindOf(last.arg.type))
               ELSE IF KindOf(last.arg.type) \in {"constructor", "toString"}
               THEN <<"<Object.prototype." \o last.arg.type \o ">",
                      "<Object.prototype." \o last.arg.type \o ">",
                      "<Object.prototype." \o last.arg.type \o ">">>
               ELSE <<"info", "Notification", "#17a2b8">>)

\* C7 witness: an alert of an unknown kind was shown without a title
C7_Witness ==
    /\ NotifyCalled
    /\ last.arg.type = "bogus"
    /\ last.arg.title = UNDEFINED
    /\ \E i \in CallsOf(last.calls, "Swal.fire") :
          TripleOf(last.calls[i].opts) = <<"info", "Notification", "#17a2b8">>

\* C8: an alert of kind "success" (also when the kind was absent) is shown
\* with the timer CONFIG.successAutoClose and a progress bar; an alert of any
\* other kind is shown with no timer.
C8_TimerOnlyForSuccess ==
    NotifyCalled =>
        \A i \in CallsOf(last.calls, "Swal.fire") :
            IF KindOf(last.arg.type) = "success"
            THEN /\ last.calls[i].opts.timer = <<CONFIG.successAutoClose>>
                 /\ last.calls[i].opts.timerProgressBar
            ELSE last.calls[i].opts.timer = <<>>

\* C8 witness: with the delay reconfigured, an alert without a kind was shown
\* with the new delay
C8_Witness ==
    /\ NotifyCalled
    /\ last.arg.type = UNDEFINED
    /\ CONFIG.successAutoClose = 1500
    /\ \E i \in CallsOf(last.calls, "Swal.fire") :
          /\ last.calls[i].opts.timer = <<1500>>
          /\ last.calls[i].opts.timerProgressBar

\* C9: at most one modal handle is ever constructed; once modalInstance holds
\* it, no handler replaces it or resets it to null; a modal that is not
\* hidden is the one of that handle.
C9_SingleHandle ==
    /\ instances <= 1
    /\ modalInstance = instances
    /\ (last.pre.modalInstance # 0) => (modalInstance = last.pre.modalInstance)
    /\ (widget # "hidden") => (modalInstance = 1)

\* C9 witness: the one handle is still there after a full show and hide
C9_Witness ==
    /\ last.event = "hidden.bs.modal"
    /\ last.pre.modalInstance = 1
    /\ modalInstance = 1
    /\ instances = 1

\* C10 as claimed: initModal builds the handle and returns true exactly when
\* the modal element and bootstrap are both available when it runs; otherwise
\* it logs an error, returns false, leaves the handle null and does not throw.
C10_InitSucceedsIffAvailable ==
    (Cardinality(CallsOf(last.calls, "initModal")) = 1) =>
        IF domModal /\ bootstrapDefined
        THEN /\ last.ret = "true"
             /\ modalInstance # 0
             /\ Cardinality(CallsOf(last.calls, "new bootstrap.Modal")) = 1
             /\ ~last.threw
        ELSE /\ last.ret = "false"
             /\ modalInstance = 0
             /\ CallsOf(last.calls, "console.error") # {}
             /\ ~last.threw


\* the Modal Controller state now and after the step
StateNow == ModalState(modalInstance, widget, content)
StateNext == ModalState(modalInstance', widget', content')

\* the events that call hideModal
HideTriggers == {"htmx:responseError", "htmx:timeout", "closeModal", "HTMXModal.hide", "timer"}

\* C11 as claimed: the state changes only from Uninitialized to Hidden on a
\* successful initModal, from Hidden to Loading on htmx:beforeRequest, from
\* Loading to Visible on htmx:afterSwap, and from Visible to Hidden on a hide
\* trigger (the change taken at the latest when its hide transition ends).
C11_Original ==
    [][(StateNow # StateNext) =>
          \/ /\ StateNow = "Uninitialized"
             /\ StateNext = "Hidden"
             /\ last'.event \in {"script", "DOMContentLoaded"}
          \/ /\ StateNow = "Hidden"
             /\ StateNext = "Loading"
             /\ last'.event = "htmx:beforeRequest"
          \/ /\ StateNow = "Loading"
             /\ StateNext = "Visible"
             /\ last'.event = "htmx:afterSwap"
          \/ /\ StateNow = "Visible"
             /\ StateNext = "Hidden"
             /\ last'.event \in HideTriggers \cup {"hidden.bs.modal"}]_vars

\* C11 amended: Uninitialized is left only by a successful initModal, into
\* Hidden (into Loading when the spinner was already in the content region);
\* Loading is entered from Hidden only on htmx:beforeRequest for the content
\* region, and left for Hidden when content is swapped in or clear() is
\* called; Visible is entered only by htmx:afterSwap for the content region
\* or by the public show(), from Hidden as well as from Loading; Visible is
\* left only for Hidden, when the hide transition ends.
C11_Transitions ==
    [][(StateNow # StateNext) =>
          \/ /\ StateNow = "Uninitialized"
             /\ StateNext \in {"Hidden", "Loading"}
             /\ last'.event \in {"script", "DOMContentLoaded"}
             /\ last'.ret = "true"
             /\ (StateNext = "Loading") => (content = "spinner")
          \/ /\ StateNow = "Hidden"
             /\ StateNext = "Loading"
             /\ last'.event = "htmx:beforeRequest"
             /\ last'.arg.target = ModalContentId
          \/ /\ StateNow = "Loading"
             /\ StateNext = "Hidden"
             /\ last'.event \in {"none", "HTMXModal.clear"}
             /\ content' \in {"html", "empty"}
          \/ /\ StateNow \in {"Hidden", "Loading"}
             /\ StateNext = "Visible"
             /\ \/ last'.event = "htmx:afterSwap" /\ last'.arg.target = ModalContentId
                \/ last'.event = "HTMXModal.show"
          \/ /\ StateNow = "Visible"
             /\ StateNext = "Hidden"
             /\ widget = "hiding"
             /\ last'.event = "hidden.bs.modal"]_vars

\* C11 witness: the public show() made a Hidden modal Visible, with no request
C11_Witness ==
    /\ last.event = "HTMXModal.show"
    /\ ModalState(last.pre.modalInstance, last.pre.widget, last.pre.content) = "Hidden"
    /\ StateNow = "Visible"


\* the triggers of the Event Router, with the callbacks it delays
RouterTriggers == {"htmx:beforeRequest", "htmx:afterSwap", "htmx:beforeSwap",
                   "htmx:responseError", "htmx:sendError", "htmx:timeout",
                   "showAlert", "closeModal", "timer"}

\* C12: once initModal has failed, so that modalInstance is null, no Event
\* Router trigger changes the content region or the modal's visibility, and
\* modalInstance stays null.
C12_InertWhileUninitialized ==
    (last.event \in RouterTriggers /\ pc = "ready" /\ last.pre.modalInstance = 0) =>
        /\ content = last.pre.content
        /\ widget = last.pre.widget
        /\ modalInstance = 0
        /\ CallsOf(last.calls, "innerHTML=") = {}


\* C13: no Event Router listener throws, in any modal state and with or
\* without Swal; a showAlert event without detail makes one notify call with
\* the message "Action completed" and the kind "success".
C13_NoListenerThrows ==
    /\ (last.event \in RouterTriggers \cup {"hidden.bs.modal"}) => ~last.threw
    /\ (last.event = "showAlert" /\ ~last.arg.present) =>
          /\ Cardinality(CallsOf(last.calls, "showSweetAlert")) = 1
          /\ \A i \in CallsOf(last.calls, "showSweetAlert") :
                /\ last.calls[i].message = "Action completed"
                /\ last.calls[i].type = "success"


\* the console line of the fallback for the arguments of the last notify call
FallbackLine ==
    "[" \o ToUpperCase(KindOf(last.arg.type)) \o "] "
        \o (IF last.arg.title \in {NULL, UNDEFINED} THEN "" ELSE last.arg.title)
        \o ": " \o last.arg.message

\* C14: showSweetAlert never throws, whatever the kind and the title; without
\* Swal it calls no widget, logs one error, writes the one console line
\* [KIND] title: message and returns.
C14_NotifyNeverThrows ==
    NotifyCalled =>
        /\ ~last.threw
        /\ ~swalDefined =>
              /\ CallsOf(last.calls, "Swal.fire") = {}
              /\ Cardinality(CallsOf(last.calls, "console.error")) = 1
              /\ Cardinality(CallsOf(last.calls, "console.log")) = 1
              /\ \A i \in CallsOf(last.calls, "console.log") :
                    last.calls[i].text = FallbackLine


\* C15: without Swal, showConfirmation does not throw and shows no dialog: it
\* logs one error and returns a rejected promise; with Swal it returns the
\* promise of one Swal.fire call for a dialog with a cancel button.
C15_ConfirmRejectsWithoutSwal ==
    (last.event = "HTMXModal.confirm") =>
        /\ ~last.threw
        /\ IF swalDefined
           THEN /\ last.ret = "Promise:pending"
                /\ Cardinality(CallsOf(last.calls, "Swal.fire")) = 1
                /\ \A i \in CallsOf(last.calls, "Swal.fire") :
                      /\ last.calls[i].opts.showCancelButton
                      /\ last.calls[i].opts.icon = "question"
                      /\ last.calls[i].opts.text = last.arg.message
                /\ CallsOf(last.calls, "console.error") = {}
           ELSE /\ last.ret = "Promise:rejected"
                /\ CallsOf(last.calls, "Swal.fire") = {}
                /\ Cardinality(CallsOf(last.calls, "console.error")) = 1

\* C15 witness: confirm was called without Swal and returned a rejected promise
C15_Witness ==
    /\ last.event = "HTMXModal.confirm"
    /\ ~swalDefined
    /\ last.ret = "Promise:rejected"
    /\ ~last.threw


AlertTimer(t) == t.fn = "showSweetAlert"

HideTimer(t) == t.fn = "hideModal"

\* C16: when one htmx:beforeSwap event sets both timers, hideModal runs before
\* showSweetAlert: while the hide timer of such an event is pending, the alert
\* timer of the same event is pending right before it and is due later, and
\* each of the two timers makes its one call when it runs.
C16_HideRunsBeforeAlert ==
    /\ \A j \in DOMAIN timers :
          (HideTimer(timers[j]) /\ timers[j].paired) =>
              /\ j > 1
              /\ AlertTimer(timers[j - 1])
              /\ timers[j - 1].paired
              /\ timers[j - 1].remaining > timers[j].remaining
    /\ (last.event = "timer" /\ last.arg.paired) =>
          /\ Cardinality(CallsOf(last.calls, last.arg.fn)) = 1
          /\ AlertTimer(last.arg) =>
                (timers = <<>> \/ ~(HideTimer(timers[1]) /\ timers[1].paired))

\* C16 witness: the alert timer of an event that also set a hide timer has run
C16_Witness ==
    /\ last.event = "timer"
    /\ AlertTimer(last.arg)
    /\ last.arg.paired
    /\ Cardinality(CallsOf(last.calls, "showSweetAlert")) = 1


\* the callbacks of the timers a htmx:beforeSwap event with headers h sets
TimersFor(h) ==
    (IF Truthy(h.message) THEN <<"showSweetAlert">> ELSE <<>>)
    \o (IF h.close = "true" THEN <<"hideModal">> ELSE <<>>)

\* what a step does to the pending timers
C17_Step ==
    IF last'.event = "htmx:beforeSwap"
    THEN /\ Len(timers') = Len(timers) + Len(TimersFor(last'.arg))
         /\ SubSeq(timers', 1, Len(timers)) = timers
         /\ \A k \in DOMAIN TimersFor(last'.arg) :
               /\ timers'[Len(timers) + k].fn = TimersFor(last'.arg)[k]
               /\ timers'[Len(timers) + k].remaining > 0
    ELSE IF last'.event = "timer"
    THEN /\ \E i \in DOMAIN timers :
               /\ timers[i] = last'.arg
               /\ timers[i].remaining = 0
               /\ timers' = RemoveAt(timers, i)
         /\ Cardinality(CallsOf(last'.calls, last'.arg.fn)) = 1
         /\ ~last'.threw
         /\ HideTimer(last'.arg) =>
               /\ widget' = IF modalInstance # 0 /\ widget = "shown"
                            THEN "hiding" ELSE widget
               /\ content' = content
               /\ modalInstance' = modalInstance
    ELSE IF last'.event = "none"
    THEN /\ Len(timers') = Len(timers)
         /\ \A i \in DOMAIN timers :
               /\ timers'[i] = [timers[i] EXCEPT !.remaining = timers'[i].remaining]
               /\ timers'[i].remaining >= 0
               /\ timers'[i].remaining < timers[i].remaining
    ELSE timers' = timers

DueTimer == \E i \in DOMAIN timers : timers[i].remaining = 0

WaitingTimer == \E i \in DOMAIN timers : timers[i].remaining > 0

\* C17: no timer is cancelled and each runs once.  A htmx:beforeSwap event
\* adds one hide timer iff HX-Close-Modal is "true" and one alert timer iff
\* HX-Alert-Message is non-empty; a pending timer is removed only by running,
\* and running it calls its callback exactly once, hideModal acting on the
\* modal as it is then; every other trigger leaves the pending timers alone.
\* On the event loop every due timer eventually runs, and while a timer is
\* not yet due time eventually passes, which brings every such timer nearer.
C17_TimersNeverCancelled ==
    /\ [][C17_Step]_vars
    /\ DueTimer ~> ~DueTimer
    /\ WaitingTimer ~> (last.event = "none")

\* C17 witness: a hide timer has run on a modal that was shown when it ran,
\* with another timer still pending
C17_Witness ==
    /\ last.event = "timer"
    /\ HideTimer(last.arg)
    /\ last.pre.widget = "shown"
    /\ widget = "hiding"
    /\ timers # <<>>


\* the machine as the next listener finds it
Fresh(m) == [m EXCEPT !.calls = <<>>, !.threw = FALSE, !.ret = UNDEFINED]

\* one delivery of a trigger to its listener
Deliver(m, ev, a) ==
    CASE ev = "htmx:afterSwap" -> OnAfterSwap(Fresh(m), a)
      [] ev = "htmx:beforeRequest" -> OnBeforeRequest(Fresh(m), a)
      [] ev = "htmx:beforeSwap" -> OnBeforeSwap(Fresh(m), a)
      [] ev = "htmx:responseError" -> OnResponseError(Fresh(m))
      [] ev = "htmx:sendError" -> OnSendError(Fresh(m))
      [] ev = "htmx:timeout" -> OnTimeout(Fresh(m))
      [] ev = "showAlert" -> OnShowAlert(Fresh(m), a)
      [] ev = "closeModal" -> OnCloseModal(Fresh(m))

\* the arguments a trigger is delivered with
ArgsOf(ev) ==
    CASE ev \in {"htmx:afterSwap", "htmx:beforeRequest"} ->
            {t \in TargetIds : (t = ModalContentId) => domContent}
      [] ev = "htmx:beforeSwap" -> HeaderBags
      [] ev = "showAlert" -> Details
      [] OTHER -> {NoArg}

\* the next to run of the timers set after the first n: the one due first,
\* and of those due together the one set first
NextTimer(m, n) ==
    CHOOSE i \in (n + 1)..Len(m.timers) :
        \A j \in (n + 1)..Len(m.timers) :
            \/ m.timers[i].remaining < m.timers[j].remaining
            \/ m.timers[i].remaining = m.timers[j].remaining /\ i <= j

RECURSIVE Settle(_, _)
\* the machine after the timers set after the first n have run
Settle(m, n) ==
    IF Len(m.timers) <= n THEN m
    ELSE LET i == NextTimer(m, n)
         IN Settle(RunTimer(Fresh([m EXCEPT !.timers = RemoveAt(@, i)]), m.timers[i]), n)

\* the modal: its handle, the widget's visibility and the content region
ModalOf(m) == <<m.modalInstance, m.widget, m.content>>

RouterEvents == RouterTriggers \ {"timer"}

\* C18: every listener of the router is idempotent on the modal: in every
\* state, delivering a trigger twice in succession and running the timers the
\* two deliveries set leaves the modal handle, the modal's visibility and the
\* content region as delivering it once and running its timers does.
C18_ListenersIdempotent ==
    \A ev \in RouterEvents \cap listeners :
        \A a \in ArgsOf(ev) :
            LET once == Deliver(Machine, ev, a)
                twice == Deliver(once, ev, a)
            IN ModalOf(Settle(twice, Len(timers))) = ModalOf(Settle(once, Len(timers)))

\* C18 witness: a closing htmx:beforeSwap event has been delivered twice in
\* succession while the modal was shown: its two hide timers are pending
C18_Witness ==
    /\ last.event = "htmx:beforeSwap"
    /\ last.arg.close = "true"
    /\ last.pre.timers = 1
    /\ Len(timers) = 2
    /\ \A i \in DOMAIN timers : HideTimer(timers[i]) /\ timers[i].remaining = HideDelay
    /\ modalInstance # 0
    /\ widget = "shown"


\* C19: a htmx:beforeRequest or htmx:afterSwap event whose target is not the
\* modal's content region leaves the modal alone: the listener calls neither
\* showModalLoading nor showModal, nor anything else, and the modal handle, the
\* modal's visibility and the content region are as before the event.
C19_OtherTargetLeavesModal ==
    (/\ last.event \in {"htmx:beforeRequest", "htmx:afterSwap"}
     /\ last.arg.target # ModalContentId) =>
        /\ last.calls = <<>>
        /\ ~last.threw
        /\ ModalUnchanged
        /\ Len(timers) = last.pre.timers

\* C19 witness: a swap into another container completed while the modal was
\* initialized and hidden, and the modal stayed hidden
C19_Witness ==
    /\ last.event = "htmx:afterSwap"
    /\ last.arg.target = "other-panel"
    /\ modalInstance # 0
    /\ last.pre.widget = "hidden"
    /\ widget = "hidden"


\* what a step keeps true of the modal handle and the hidden.bs.modal listener
C20_Step ==
    /\ (modalInstance' # 0) => ("hidden.bs.modal" \in listeners' /\ modalElement')
    /\ (modalInstance # 0 /\ widget # "hidden" /\ widget' = "hidden") =>
          /\ last'.event = "hidden.bs.modal"
          /\ Cardinality(CallsOf(last'.calls, "clearModalContent")) = 1

\* C20: whenever modalInstance is set, the hidden.bs.modal listener is
\* registered on the modal element; and an initialized modal becomes hidden
\* only by a hidden.bs.modal event whose listener calls clearModalContent.
C20_HandleImpliesClearingListener == [][C20_Step]_vars

\* C20 witness: with the handle set and the listener registered, a hide
\* transition has ended and the listener has called clearModalContent
C20_Witness ==
    /\ modalInstance # 0
    /\ "hidden.bs.modal" \in listeners
    /\ last.event = "hidden.bs.modal"
    /\ last.pre.widget = "hiding"
    /\ widget = "hidden"
    /\ Cardinality(CallsOf(last.calls, "clearModalContent")) = 1

====
